---- MODULE Spec2Model ----
(***************************************************************************)
(* Model of gpflow/conditionals/mo_sample_conditionals.py: the             *)
(* sample_conditional variant registered for (object, MixedKernelSharedMof,*)
(* SeparateMixedMok, object).  One call of the variant is a walk of pc     *)
(* through the source lines 25..36; tensors are integer-valued arrays of   *)
(* arbitrary rank ([shape, data]); the collaborators that live outside the *)
(* file (the dispatch registry, the resolved conditional, sample_mvn,      *)
(* mix_latent_gp, tensordot) are modelled from their documented contracts. *)
(***************************************************************************)
EXTENDS Integers, Sequences, FiniteSets, TLC

VARIABLES pc, registry, args, ind_conditional, g_mu, g_var, g_sample,
          f_mu, f_var, f_sample, result, error, calls

vars == <<pc, registry, args, ind_conditional, g_mu, g_var, g_sample,
          f_mu, f_var, f_sample, result, error, calls>>

locals == <<ind_conditional, g_mu, g_var, g_sample, f_mu, f_var, f_sample>>

(* ------------------------------ bounds --------------------------------- *)
MaxN == 2
MaxL == 2
MaxP == 2
MaxS == 2
MaxSeed == 1
MaxReg == 3
InputDim == 1
NumInducing == 2

BatchShapes == {<<>>, <<2>>}
Seeds == 0..MaxSeed

(* ------------------------------ tensors -------------------------------- *)
RECURSIVE Indices(_)
Indices(shape) ==
  IF shape = <<>> THEN {<<>>}
  ELSE {<<i>> \o rest : i \in 1..Head(shape), rest \in Indices(Tail(shape))}

RECURSIVE Flat(_, _)
Flat(idx, shape) ==
  IF idx = <<>> THEN 0
  ELSE Flat(SubSeq(idx, 1, Len(idx) - 1), SubSeq(shape, 1, Len(shape) - 1))
         * shape[Len(shape)] + (idx[Len(idx)] - 1)

RECURSIVE SumSeq(_)
SumSeq(s) == IF s = <<>> THEN 0 ELSE Head(s) + SumSeq(Tail(s))

Rank(t) == Len(t.shape)

NoTensor == [shape |-> <<0>>, data |-> <<>>]

Gen(seed, k) == (seed + 1) * (k + 2) + seed * k * k

Fill(shape, seed, lo, m) ==
  [shape |-> shape,
   data |-> [idx \in Indices(shape) |-> lo + (Gen(seed, Flat(idx, shape)) % m)]]

Eye(n) ==
  [shape |-> <<n, n>>,
   data |-> [idx \in Indices(<<n, n>>) |-> IF idx[1] = idx[2] THEN 1 ELSE 0]]

Remove(s, i) == SubSeq(s, 1, i - 1) \o SubSeq(s, i + 1, Len(s))

Insert(s, i, v) == SubSeq(s, 1, i - 1) \o <<v>> \o SubSeq(s, i, Len(s))

NormAxis(ax, rank) == IF ax < 0 THEN ax + rank + 1 ELSE ax + 1

ISqrt(v) == CHOOSE r \in 0..v : r * r <= v /\ (r + 1) * (r + 1) > v

Squared(t) == [shape |-> t.shape, data |-> [idx \in DOMAIN t.data |-> t.data[idx] * t.data[idx]]]

CanContract(a, b, axes) ==
  LET ia == NormAxis(axes[1][1], Rank(a))
      ib == NormAxis(axes[2][1], Rank(b))
  IN  /\ ia \in 1..Rank(a)
      /\ ib \in 1..Rank(b)
      /\ a.shape[ia] = b.shape[ib]

TensorDot(a, b, axes) ==
  LET ia == NormAxis(axes[1][1], Rank(a))
      ib == NormAxis(axes[2][1], Rank(b))
      fa == Rank(a) - 1
      shape == Remove(a.shape, ia) \o Remove(b.shape, ib)
  IN  [shape |-> shape,
       data |-> [idx \in Indices(shape) |->
                  SumSeq([k \in 1..a.shape[ia] |->
                            a.data[Insert(SubSeq(idx, 1, fa), ia, k)]
                          * b.data[Insert(SubSeq(idx, fa + 1, Len(idx)), ib, k)]])]]

(* --------------------------- type hierarchy ---------------------------- *)
Types == {"object", "Tensor", "MixedKernelSharedMof", "SeparateIndependentMof",
          "MixedKernelSeparateMof", "SeparateIndependentMok", "SeparateMixedMok"}

Parent(t) == IF t = "MixedKernelSeparateMof" THEN "SeparateIndependentMof" ELSE "object"

RECURSIVE IsSubtype(_, _)
IsSubtype(t, pat) ==
  IF t = pat THEN TRUE
  ELSE IF t = "object" THEN FALSE
  ELSE IsSubtype(Parent(t), pat)

RECURSIVE Dist(_, _)
Dist(t, pat) == IF t = pat THEN 0 ELSE 1 + Dist(Parent(t), pat)

(* --------------------------- dispatch registry ------------------------- *)
Matches(pattern, types) ==
  /\ Len(pattern) = Len(types)
  /\ \A i \in 1..Len(types) : IsSubtype(types[i], pattern[i])

Specificity(pattern, types) == [i \in 1..Len(types) |-> Dist(types[i], pattern[i])]

\* r1 strictly more specific than r2: the leftmost slot where they differ decides.
MoreSpecific(r1, r2) ==
  \E i \in 1..Len(r1) :
    /\ r1[i] < r2[i]
    /\ \A j \in 1..(i - 1) : r1[j] = r2[j]

Candidates(reg, types) == {i \in 1..Len(reg) : Matches(reg[i].pattern, types)}

Resolves(reg, types) == Candidates(reg, types) # {}

DispatchFirstRegistered(reg, types) ==
  LET c == Candidates(reg, types)
  IN  reg[CHOOSE i \in c : \A j \in c : i <= j].impl

Dispatch(reg, types) ==
  LET c == Candidates(reg, types)
      best == CHOOSE i \in c : \A j \in c :
                \/ j = i
                \/ MoreSpecific(Specificity(reg[i].pattern, types),
                                Specificity(reg[j].pattern, types))
  IN  reg[best].impl

Register(reg, entry) == Append(reg, entry)

GenericConditional ==
  [pattern |-> <<"object", "object", "object", "object">>, impl |-> "generic_conditional"]

FeatOnlyConditional ==
  [pattern |-> <<"object", "SeparateIndependentMof", "object", "object">>,
   impl |-> "feat_only_conditional"]

IndependentConditional ==
  [pattern |-> <<"object", "SeparateIndependentMof", "SeparateIndependentMok", "object">>,
   impl |-> "independent_conditional"]

MixedConditional ==
  [pattern |-> <<"object", "MixedKernelSharedMof", "SeparateMixedMok", "object">>,
   impl |-> "mixed_conditional"]

ConditionalPool ==
  {GenericConditional, FeatOnlyConditional, IndependentConditional, MixedConditional}

\* line 12: the variant's own registration with sample_conditional
SampleConditionalRegistry ==
  << [pattern |-> <<"object", "MixedKernelSharedMof", "SeparateMixedMok", "object">>,
      impl |-> "_sample_conditional"] >>

\* line 30: the fixed type tuple the variant resolves the conditional for
IndPattern == <<"object", "SeparateIndependentMof", "SeparateIndependentMok", "object">>

\* conditional registries a loaded process may hold when the variant runs
LoadedRegistries ==
  { <<MixedConditional>>,
    <<GenericConditional, MixedConditional, IndependentConditional>> }

(* ------------------------ external collaborators ----------------------- *)
\* sample_mvn(mean, cov, "diag", num_samples): mean + sqrt(cov) * eps with eps of
\* shape [..., S, N, D], S = 1 when num_samples is None, and the S axis dropped then.
EpsShape(mean, num_samples) ==
  LET r == Rank(mean)
      S == IF num_samples = <<>> THEN 1 ELSE num_samples[1]
  IN  SubSeq(mean.shape, 1, r - 2) \o <<S>> \o SubSeq(mean.shape, r - 1, r)

SampleMvn(mean, cov, cov_structure, num_samples, eps) ==
  LET r == Rank(mean)
      samples ==
        [shape |-> eps.shape,
         data |-> [idx \in Indices(eps.shape) |->
                     mean.data[Remove(idx, r - 1)]
                       + ISqrt(cov.data[Remove(idx, r - 1)]) * eps.data[idx]]]
  IN  IF num_samples = <<>>
      THEN [shape |-> mean.shape,
            data |-> [idx \in Indices(mean.shape) |-> samples.data[Insert(idx, r - 1, 1)]]]
      ELSE samples

\* mix_latent_gp(W, g_mu, g_var, full_cov, full_output_cov): f_mu = mu @ W^T; the
\* variance is the quadratic form in W, its diagonal only unless full_output_cov.
MixLatentGp(W, mu, var, full_cov, full_output_cov) ==
  LET mean == TensorDot(mu, W, << <<-1>>, <<-1>> >>)
      P == W.shape[1]
      L == W.shape[2]
      diag == TensorDot(var, Squared(W), << <<-1>>, <<-1>> >>)
      full == [shape |-> SubSeq(var.shape, 1, Rank(var) - 1) \o <<P, P>>,
               data |-> [idx \in Indices(SubSeq(var.shape, 1, Rank(var) - 1) \o <<P, P>>) |->
                  SumSeq([l \in 1..L |->
                     W.data[<<idx[Len(idx) - 1], l>>] * W.data[<<idx[Len(idx)], l>>]
                       * var.data[SubSeq(idx, 1, Len(idx) - 2) \o <<l>>]])]]
  IN  [f_mu |-> mean, f_var |-> IF full_output_cov THEN full ELSE diag]

\* what the resolved conditional returns: moments of shape [..., N, L], N and the
\* leading axes those of Xnew, L the latent axis of f
MomentShape(Xnew, f) ==
  SubSeq(Xnew.shape, 1, Len(Xnew.shape) - 1) \o <<f.shape[Len(f.shape)]>>

(* ------------------------------- state --------------------------------- *)
NoCall ==
  [Xnew |-> [type |-> "object", shape |-> <<>>],
   feat |-> [type |-> "object"],
   kern |-> [type |-> "object", W |-> NoTensor],
   f |-> [type |-> "object", shape |-> <<>>],
   full_cov |-> FALSE, full_output_cov |-> FALSE,
   q_sqrt |-> <<>>, white |-> FALSE, num_samples |-> <<>>]

Init ==
  /\ pc = "idle"
  /\ registry \in LoadedRegistries
  /\ args = NoCall
  /\ ind_conditional = ""
  /\ g_mu = NoTensor
  /\ g_var = NoTensor
  /\ g_sample = NoTensor
  /\ f_mu = NoTensor
  /\ f_var = NoTensor
  /\ f_sample = NoTensor
  /\ result = <<>>
  /\ error = ""
  /\ calls = <<>>

MixingMatrices(P, L) ==
  {Fill(<<P, L>>, s, -2, 5) : s \in Seeds} \cup (IF P = L THEN {Eye(P)} ELSE {})

\* sample_conditional(Xnew, feat, kern, f, ...) enters the variant when the runtime
\* types resolve to the registration of line 12
Call ==
  /\ pc = "idle"
  /\ \E b \in BatchShapes, n \in 1..MaxN, P \in 1..MaxP, Lw \in 1..MaxL, Lf \in 1..MaxL,
        ft \in {"MixedKernelSharedMof", "SeparateIndependentMof"},
        kt \in {"SeparateMixedMok", "SeparateIndependentMok"},
        fc \in BOOLEAN, foc \in BOOLEAN, wh \in BOOLEAN,
        q \in {<<>>, <<"q_sqrt">>},
        ns \in {<<>>} \cup {<<k>> : k \in 1..MaxS} :
      \E W \in MixingMatrices(P, Lw) :
        /\ Resolves(SampleConditionalRegistry, <<"Tensor", ft, kt, "Tensor">>)
        /\ Dispatch(SampleConditionalRegistry, <<"Tensor", ft, kt, "Tensor">>)
             = "_sample_conditional"
        /\ args' = [Xnew |-> [type |-> "Tensor", shape |-> b \o <<n, InputDim>>],
                    feat |-> [type |-> ft],
                    kern |-> [type |-> kt, W |-> W],
                    f |-> [type |-> "Tensor", shape |-> <<NumInducing, Lf>>],
                    full_cov |-> fc, full_output_cov |-> foc,
                    q_sqrt |-> q, white |-> wh, num_samples |-> ns]
  /\ pc' = "line25"
  /\ UNCHANGED <<registry, locals, result, error, calls>>

Invocation(fn, target, a, kw) == [fn |-> fn, target |-> target, a |-> a, kw |-> kw]

LastAxes == << <<-1>>, <<-1>> >>

Raise(e) ==
  /\ error' = e
  /\ pc' = "raised"

\* lines 25-26
CheckFullCovLenient ==
  /\ pc = "line25"
  /\ pc' = "line27"
  /\ UNCHANGED <<registry, args, locals, result, error, calls>>

CheckFullCov ==
  /\ pc = "line25"
  /\ IF args.full_cov
     THEN Raise("NotImplementedError")
     ELSE pc' = "line27" /\ UNCHANGED error
  /\ UNCHANGED <<registry, args, locals, result, calls>>

\* lines 27-28
CheckFullOutputCovLate ==
  /\ pc = "line27"
  /\ IF args.full_output_cov
     THEN /\ Raise("NotImplementedError")
          /\ calls' = Append(calls, Invocation("conditional.dispatch", "conditional.dispatch",
                                              IndPattern, <<>>))
     ELSE pc' = "line30" /\ UNCHANGED <<error, calls>>
  /\ UNCHANGED <<registry, args, locals, result>>

CheckFullOutputCov ==
  /\ pc = "line27"
  /\ IF args.full_output_cov
     THEN Raise("NotImplementedError")
     ELSE pc' = "line30" /\ UNCHANGED error
  /\ UNCHANGED <<registry, args, locals, result, calls>>

\* line 30
ResolveConditionalWithFallback ==
  /\ pc = "line30"
  /\ calls' = Append(calls, Invocation("conditional.dispatch", "conditional.dispatch",
                                       IndPattern, <<>>))
  /\ ind_conditional' = IF Resolves(registry, IndPattern)
                        THEN Dispatch(registry, IndPattern)
                        ELSE "default_conditional"
  /\ pc' = "line31"
  /\ UNCHANGED <<registry, args, g_mu, g_var, g_sample, f_mu, f_var, f_sample, result, error>>

ResolveConditionalByRuntimeTypes ==
  LET types == <<args.Xnew.type, args.feat.type, args.kern.type, args.f.type>>
  IN  /\ pc = "line30"
      /\ calls' = Append(calls, Invocation("conditional.dispatch", "conditional.dispatch",
                                           types, <<>>))
      /\ IF Resolves(registry, types)
         THEN /\ ind_conditional' = Dispatch(registry, types)
              /\ pc' = "line31"
              /\ UNCHANGED error
         ELSE /\ Raise("DispatchError")
              /\ UNCHANGED ind_conditional
      /\ UNCHANGED <<registry, args, g_mu, g_var, g_sample, f_mu, f_var, f_sample, result>>

ResolveConditional ==
  /\ pc = "line30"
  /\ calls' = Append(calls, Invocation("conditional.dispatch", "conditional.dispatch",
                                       IndPattern, <<>>))
  /\ IF Resolves(registry, IndPattern)
     THEN /\ ind_conditional' = Dispatch(registry, IndPattern)
          /\ pc' = "line31"
          /\ UNCHANGED error
     ELSE /\ Raise("DispatchError")
          /\ UNCHANGED ind_conditional
  /\ UNCHANGED <<registry, args, g_mu, g_var, g_sample, f_mu, f_var, f_sample, result>>

\* lines 31-32: the resolved conditional returns the latent moments, or fails
IndConditionalCall(kw) == Invocation("ind_conditional", ind_conditional,
                                     <<args.Xnew, args.feat, args.kern, args.f>>, kw)

CallIndConditional ==
  /\ pc = "line31"
  /\ calls' = Append(calls, IndConditionalCall([white |-> args.white, q_sqrt |-> args.q_sqrt]))
  /\ \/ \E sm \in Seeds, sv \in Seeds :
          /\ g_mu' = Fill(MomentShape(args.Xnew, args.f), sm, -2, 5)
          /\ g_var' = Squared(Fill(MomentShape(args.Xnew, args.f), sv, 0, 3))
          /\ pc' = "line33"
          /\ UNCHANGED error
     \/ /\ Raise("InvalidArgumentError")
        /\ UNCHANGED <<g_mu, g_var>>
  /\ UNCHANGED <<registry, args, ind_conditional, g_sample, f_mu, f_var, f_sample, result>>

\* line 33
DrawSampleSingle ==
  /\ pc = "line33"
  /\ calls' = Append(calls, Invocation("sample_mvn", "sample_mvn", <<g_mu, g_var, "diag">>,
                                       [num_samples |-> <<>>]))
  /\ \E se \in Seeds :
       g_sample' = SampleMvn(g_mu, g_var, "diag", <<>>,
                             Fill(EpsShape(g_mu, <<>>), se, -1, 3))
  /\ pc' = "line34"
  /\ UNCHANGED <<registry, args, ind_conditional, g_mu, g_var, f_mu, f_var, f_sample,
                 result, error>>

DrawSample ==
  /\ pc = "line33"
  /\ calls' = Append(calls, Invocation("sample_mvn", "sample_mvn", <<g_mu, g_var, "diag">>,
                                       [num_samples |-> args.num_samples]))
  /\ \E se \in Seeds :
       g_sample' = SampleMvn(g_mu, g_var, "diag", args.num_samples,
                             Fill(EpsShape(g_mu, args.num_samples), se, -1, 3))
  /\ pc' = "line34"
  /\ UNCHANGED <<registry, args, ind_conditional, g_mu, g_var, f_mu, f_var, f_sample,
                 result, error>>

\* line 34
MixMomentsRecovering ==
  /\ pc = "line34"
  /\ calls' = Append(calls, Invocation("mix_latent_gp", "mix_latent_gp",
                 <<args.kern.W, g_mu, g_var, args.full_cov, args.full_output_cov>>, <<>>))
  /\ IF CanContract(g_mu, args.kern.W, LastAxes)
     THEN LET m == MixLatentGp(args.kern.W, g_mu, g_var, args.full_cov, args.full_output_cov)
          IN  f_mu' = m.f_mu /\ f_var' = m.f_var
     ELSE UNCHANGED <<f_mu, f_var>>
  /\ pc' = "line35"
  /\ UNCHANGED <<registry, args, ind_conditional, g_mu, g_var, g_sample, f_sample,
                 result, error>>

MixMomentsSwapped ==
  /\ pc = "line34"
  /\ calls' = Append(calls, Invocation("mix_latent_gp", "mix_latent_gp",
                 <<args.kern.W, g_var, g_mu, args.full_cov, args.full_output_cov>>, <<>>))
  /\ IF CanContract(g_mu, args.kern.W, LastAxes)
     THEN LET m == MixLatentGp(args.kern.W, g_var, g_mu, args.full_cov, args.full_output_cov)
          IN  /\ f_mu' = m.f_mu
              /\ f_var' = m.f_var
              /\ pc' = "line35"
              /\ UNCHANGED error
     ELSE /\ Raise("ShapeMismatchError")
          /\ UNCHANGED <<f_mu, f_var>>
  /\ UNCHANGED <<registry, args, ind_conditional, g_mu, g_var, g_sample, f_sample, result>>

MixMoments ==
  /\ pc = "line34"
  /\ calls' = Append(calls, Invocation("mix_latent_gp", "mix_latent_gp",
                 <<args.kern.W, g_mu, g_var, args.full_cov, args.full_output_cov>>, <<>>))
  /\ IF CanContract(g_mu, args.kern.W, LastAxes)
     THEN LET m == MixLatentGp(args.kern.W, g_mu, g_var, args.full_cov, args.full_output_cov)
          IN  /\ f_mu' = m.f_mu
              /\ f_var' = m.f_var
              /\ pc' = "line35"
              /\ UNCHANGED error
     ELSE /\ Raise("ShapeMismatchError")
          /\ UNCHANGED <<f_mu, f_var>>
  /\ UNCHANGED <<registry, args, ind_conditional, g_mu, g_var, g_sample, f_sample, result>>

\* line 35
ContractSampleFirstAxis ==
  /\ pc = "line35"
  /\ calls' = Append(calls, Invocation("tf.tensordot", "tf.tensordot",
                                       <<g_sample, args.kern.W, << <<-1>>, <<0>> >> >>, <<>>))
  /\ IF CanContract(g_sample, args.kern.W, << <<-1>>, <<0>> >>)
     THEN /\ f_sample' = TensorDot(g_sample, args.kern.W, << <<-1>>, <<0>> >>)
          /\ pc' = "line36"
          /\ UNCHANGED error
     ELSE /\ Raise("ShapeMismatchError")
          /\ UNCHANGED f_sample
  /\ UNCHANGED <<registry, args, ind_conditional, g_mu, g_var, g_sample, f_mu, f_var, result>>

ContractSample ==
  /\ pc = "line35"
  /\ calls' = Append(calls, Invocation("tf.tensordot", "tf.tensordot",
                                       <<g_sample, args.kern.W, LastAxes>>, <<>>))
  /\ IF CanContract(g_sample, args.kern.W, LastAxes)
     THEN /\ f_sample' = TensorDot(g_sample, args.kern.W, LastAxes)
          /\ pc' = "line36"
          /\ UNCHANGED error
     ELSE /\ Raise("ShapeMismatchError")
          /\ UNCHANGED f_sample
  /\ UNCHANGED <<registry, args, ind_conditional, g_mu, g_var, g_sample, f_mu, f_var, result>>

\* line 36
ReturnMeanAsSample ==
  /\ pc = "line36"
  /\ result' = << [f_sample |-> f_mu, f_mu |-> f_mu, f_var |-> f_var] >>
  /\ pc' = "done"
  /\ UNCHANGED <<registry, args, locals, error, calls>>

Return ==
  /\ pc = "line36"
  /\ result' = << [f_sample |-> f_sample, f_mu |-> f_mu, f_var |-> f_var] >>
  /\ pc' = "done"
  /\ UNCHANGED <<registry, args, locals, error, calls>>

Next ==
  \/ Call
  \/ CheckFullCov
  \/ CheckFullOutputCov
  \/ ResolveConditional
  \/ CallIndConditional
  \/ DrawSample
  \/ MixMoments
  \/ ContractSample
  \/ Return

Spec == Init /\ [][Next]_vars

(* ------------------- the registry on its own: module load --------------- *)
InitRegistry ==
  /\ pc = "loading"
  /\ registry = <<>>
  /\ args = NoCall
  /\ ind_conditional = ""
  /\ g_mu = NoTensor
  /\ g_var = NoTensor
  /\ g_sample = NoTensor
  /\ f_mu = NoTensor
  /\ f_var = NoTensor
  /\ f_sample = NoTensor
  /\ result = <<>>
  /\ error = ""
  /\ calls = <<>>

Registered(reg) == {reg[i] : i \in 1..Len(reg)}

RegisterConditional ==
  /\ pc = "loading"
  /\ Len(registry) < MaxReg
  /\ \E e \in ConditionalPool :
       /\ \A o \in Registered(registry) : o.pattern # e.pattern
       /\ registry' = Register(registry, e)
  /\ UNCHANGED <<pc, args, locals, result, error, calls>>

Seal ==
  /\ pc = "loading"
  /\ pc' = "sealed"
  /\ UNCHANGED <<registry, args, locals, result, error, calls>>

QueryTypes ==
  {<<x, ft, kt, x>> : x \in {"object", "Tensor"},
                      ft \in {"SeparateIndependentMof", "MixedKernelSeparateMof",
                              "MixedKernelSharedMof"},
                      kt \in {"SeparateIndependentMok", "SeparateMixedMok"}}

Query ==
  /\ pc = "sealed"
  /\ \E types \in QueryTypes :
       /\ calls' = <<Invocation("conditional.dispatch", "conditional.dispatch", types, <<>>)>>
       /\ IF Resolves(registry, types)
          THEN /\ ind_conditional' = Dispatch(registry, types)
               /\ pc' = "resolved"
               /\ UNCHANGED error
          ELSE /\ Raise("DispatchError")
               /\ UNCHANGED ind_conditional
  /\ UNCHANGED <<registry, args, g_mu, g_var, g_sample, f_mu, f_var, f_sample, result>>

NextRegistry ==
  \/ RegisterConditional
  \/ Seal
  \/ Query

SpecRegistry == InitRegistry /\ [][NextRegistry]_vars

(* ------------------------------- claims -------------------------------- *)
Rejected == pc # "idle" /\ (args.full_cov \/ args.full_output_cov)

Returned == pc = "done" /\ result # <<>>

FnsOf(cs) == [i \in 1..Len(cs) |-> cs[i].fn]

CallOrder == <<"conditional.dispatch", "ind_conditional", "sample_mvn",
               "mix_latent_gp", "tf.tensordot">>

Batch == SubSeq(args.Xnew.shape, 1, Len(args.Xnew.shape) - 2)

NPoints == args.Xnew.shape[Len(args.Xnew.shape) - 1]

C3_SampleIsContraction ==
  Returned =>
    LET fs == result[1].f_sample
        W == args.kern.W
        lead == SubSeq(g_sample.shape, 1, Rank(g_sample) - 1)
    IN  /\ calls[3].fn = "sample_mvn"
        /\ calls[5].fn = "tf.tensordot" /\ calls[5].a[1] = g_sample /\ calls[5].a[2] = W
        /\ g_sample.shape[Rank(g_sample)] = W.shape[2]
        /\ DOMAIN fs.data = Indices(lead \o <<W.shape[1]>>)
        /\ \A idx \in Indices(lead) : \A p \in 1..W.shape[1] :
             fs.data[idx \o <<p>>]
               = SumSeq([l \in 1..W.shape[2] |-> g_sample.data[idx \o <<l>>] * W.data[<<p, l>>]])

C3_Witness ==
  /\ Returned
  /\ args.kern.W.shape = <<2, 2>>
  /\ args.kern.W.data[<<1, 2>>] # args.kern.W.data[<<2, 1>>]
  /\ \E idx \in DOMAIN g_sample.data : g_sample.data[idx] # g_mu.data[idx]
  /\ \E idx \in DOMAIN result[1].f_sample.data : result[1].f_sample.data[idx] # 0

\* C4: the returned f_sample has shape [..., (S,) N, P]: the leading axes and N of
\* Xnew, P the rows of W, and an S axis exactly when num_samples is given, of that
\* length.
C4_SampleShape ==
  Returned =>
    result[1].f_sample.shape
      = Batch \o args.num_samples \o <<NPoints, args.kern.W.shape[1]>>

C4_Witness ==
  /\ Returned
  /\ args.num_samples = <<2>>
  /\ Batch # <<>>
  /\ args.kern.W.shape[1] # args.kern.W.shape[2]
  /\ args.kern.W.shape[1] # NPoints

\* C5: the returned moments are the diagonal mixing of the latent moments the
\* sample was drawn from: f_mu[n, p] = sum_l W[p, l] * g_mu[n, l], f_var[n, p] =
\* sum_l W[p, l]^2 * g_var[n, l], both of shape [..., N, P]; mix_latent_gp gets
\* full_cov = full_output_cov = false and the moments sample_mvn got.
C5_MomentsAreMixed ==
  Returned =>
    LET W == args.kern.W
        P == W.shape[1]
        L == W.shape[2]
        lead == Batch \o <<NPoints>>
        r == result[1]
    IN  /\ r.f_mu.shape = lead \o <<P>>
        /\ r.f_var.shape = lead \o <<P>>
        /\ \A idx \in Indices(lead) : \A p \in 1..P :
             /\ r.f_mu.data[idx \o <<p>>]
                  = SumSeq([l \in 1..L |-> W.data[<<p, l>>] * g_mu.data[idx \o <<l>>]])
             /\ r.f_var.data[idx \o <<p>>]
                  = SumSeq([l \in 1..L |->
                              W.data[<<p, l>>] * W.data[<<p, l>>] * g_var.data[idx \o <<l>>]])
        /\ calls[3].fn = "sample_mvn" /\ calls[3].a[1] = g_mu /\ calls[3].a[2] = g_var
        /\ calls[4].fn = "mix_latent_gp"
        /\ calls[4].a[1] = W /\ calls[4].a[2] = g_mu /\ calls[4].a[3] = g_var
        /\ calls[4].a[4] = FALSE /\ calls[4].a[5] = FALSE

C5_Witness ==
  /\ Returned
  /\ args.kern.W.shape = <<2, 2>>
  /\ Batch # <<>>
  /\ g_mu # g_var
  /\ \E idx \in DOMAIN result[1].f_var.data :
       result[1].f_var.data[idx] # 0 /\ result[1].f_var.data[idx] # result[1].f_mu.data[idx]

\* C6: when W is the identity matrix the call returns f_sample = g_sample,
\* f_mu = g_mu and f_var = g_var.
C6_IdentityMixing ==
  (Returned /\ args.kern.W = Eye(args.kern.W.shape[1])) =>
    /\ result[1].f_sample = g_sample
    /\ result[1].f_mu = g_mu
    /\ result[1].f_var = g_var

C6_Witness ==
  /\ Returned
  /\ args.kern.W = Eye(2)
  /\ g_sample # g_mu
  /\ args.num_samples # <<>>
  /\ \E idx \in DOMAIN g_var.data : g_var.data[idx] # 0

\* C7: when no registered conditional matches (object, SeparateIndependentMof,
\* SeparateIndependentMok, object), the call ends at the dispatch with DispatchError:
\* nothing but the dispatch is invoked, no implementation is resolved, nothing is
\* returned.
C7_NoMatchRaisesDispatchError ==
  (pc # "idle" /\ ~Resolves(registry, IndPattern)) =>
    /\ pc \in {"line25", "line27", "line30", "raised"}
    /\ result = <<>>
    /\ ind_conditional = ""
    /\ \A i \in 1..Len(calls) : calls[i].fn = "conditional.dispatch"
    /\ (calls # <<>> => pc = "raised" /\ error = "DispatchError")

C7_Witness ==
  /\ pc = "raised"
  /\ error = "DispatchError"
  /\ ~Resolves(registry, IndPattern)
  /\ Len(calls) = 1
  /\ Resolves(registry, <<args.Xnew.type, args.feat.type, args.kern.type, args.f.type>>)

\* C8: dispatch returns the implementation of the one matching registration that is
\* more specific than every other matching one, whatever the order of registration;
\* with the wildcard-only and the (any, SeparateIndependentMof, SeparateIndependentMok,
\* any) patterns both registered, a query whose feature and kernel are those types or
\* subtypes resolves to the latter's implementation.
C8_MostSpecificWins ==
  pc = "resolved" =>
    LET t == calls[1].a
        M == {e \in Registered(registry) : Matches(e.pattern, t)}
    IN  /\ \E e \in M :
             /\ e.impl = ind_conditional
             /\ \A o \in M \ {e} :
                  MoreSpecific(Specificity(e.pattern, t), Specificity(o.pattern, t))
        /\ ( /\ GenericConditional \in Registered(registry)
             /\ IndependentConditional \in Registered(registry)
             /\ IsSubtype(t[2], "SeparateIndependentMof")
             /\ IsSubtype(t[3], "SeparateIndependentMok") )
           => ind_conditional = "independent_conditional"

C8_Witness ==
  /\ pc = "resolved"
  /\ Len(registry) = 3
  /\ registry[1] = GenericConditional
  /\ registry[3] = IndependentConditional
  /\ calls[1].a[2] = "MixedKernelSeparateMof"
  /\ calls[1].a[3] = "SeparateIndependentMok"
  /\ ind_conditional = "independent_conditional"

\* C9: the conditional is resolved for the fixed tuple (object, SeparateIndependentMof,
\* SeparateIndependentMok, object), not for the runtime types of the arguments; it is
\* invoked at most once (exactly once in a call that returns), on the caller's Xnew,
\* feat, kern and f, with the keyword arguments white and q_sqrt and no others.
C9_IndependentConditionalInvocation ==
  LET inv == {i \in 1..Len(calls) : calls[i].fn = "ind_conditional"}
  IN  /\ Cardinality(inv) <= 1
      /\ (Returned => Cardinality(inv) = 1)
      /\ (calls # <<>> /\ pc # "idle") =>
           calls[1].fn = "conditional.dispatch" /\ calls[1].a = IndPattern
      /\ \A i \in inv :
           /\ calls[i].target = "independent_conditional"
           /\ calls[i].a = <<args.Xnew, args.feat, args.kern, args.f>>
           /\ calls[i].a[2].type = "MixedKernelSharedMof"
           /\ calls[i].a[3].type = "SeparateMixedMok"
           /\ DOMAIN calls[i].kw = {"white", "q_sqrt"}
           /\ calls[i].kw.white = args.white
           /\ calls[i].kw.q_sqrt = args.q_sqrt

C9_Witness ==
  /\ Returned
  /\ args.white
  /\ args.q_sqrt # <<>>
  /\ calls[2].fn = "ind_conditional"
  /\ Dispatch(registry, <<args.Xnew.type, args.feat.type, args.kern.type, args.f.type>>)
       # calls[2].target

\* C10: the collaborators are invoked at most once each, in source order; a call
\* that has raised returns nothing, the error is that of the last collaborator
\* invoked, and after a failing mix_latent_gp (W's latent axis differs from g_mu's)
\* nothing further is invoked.
C10_NoRetryNoRecovery ==
  pc # "idle" /\ pc # "loading" =>
    /\ Len(calls) <= Len(CallOrder)
    /\ FnsOf(calls) = SubSeq(CallOrder, 1, Len(calls))
    /\ (pc = "raised" => result = <<>>)
    /\ (error # "" <=> pc = "raised")
    /\ (error = "DispatchError" => Len(calls) = 1)
    /\ (error = "InvalidArgumentError" => Len(calls) = 2)
    /\ (error = "ShapeMismatchError" => Len(calls) \in {4, 5})
    /\ (Len(calls) >= 4 /\ ~CanContract(g_mu, args.kern.W, LastAxes)) =>
         /\ Len(calls) = 4
         /\ pc = "raised"
         /\ error = "ShapeMismatchError"
         /\ f_mu = NoTensor /\ f_var = NoTensor /\ f_sample = NoTensor

C10_Witness ==
  /\ pc = "raised"
  /\ error = "ShapeMismatchError"
  /\ Len(calls) = 4
  /\ calls[4].fn = "mix_latent_gp"
  /\ g_sample # NoTensor
  /\ result = <<>>

====
